---- MODULE Spec2Model ----
(***************************************************************************)
(* Model of the news aggregation pipeline of bloomberg.py: the RSS parser, *)
(* the keyword tagger, the after-hours time filter, the quote fetcher and  *)
(* the merge / sort / filter / dedup stages of one page refresh.           *)
(*                                                                         *)
(* Python str values are TLA+ strings; a character is a string of length   *)
(* one, taken with SubSeq(s, i, i).  Python's None is the value None.     *)
(***************************************************************************)
EXTENDS Integers, Sequences, FiniteSets, TLC

VARIABLES
    text, tags, tag_pc,                       \* tag_article: argument, result, position
    pub_dt_str, tzname, utcnow, iah_pc, iah_ret,  \* is_after_hours: argument, environment, outcome
    rss_resp, max_items, rss_items, rss_pc,   \* parse_rss: response to the GET, cap, result, position
    feeds_checked, articles_per, after_hours, \* the sidebar: selected feeds, cap, after-hours toggle
    pc, feed_i, NEWS, bse_anns,               \* the refresh: stage, feed loop index, the list, BSE result
    fetched, merged, sorted_news,             \* history: response of each feed, NEWS after the merge, after the sort
    symbols_input, symbols, quote_i, quotes,  \* the quotes row: text input, tickers, loop index, results
    quote_cols, snap_rows, quote_pc,          \* what each column shows, the table rows, position
    quote_resps                               \* history: the response to each quote request

tagVars == <<text, tags, tag_pc>>
iahVars == <<pub_dt_str, tzname, utcnow, iah_pc, iah_ret>>
rssVars == <<rss_resp, max_items, rss_items, rss_pc>>
newsVars == <<feeds_checked, articles_per, after_hours, pc, feed_i, NEWS, bse_anns,
              fetched, merged, sorted_news>>
quoteVars == <<symbols_input, symbols, quote_i, quotes, quote_cols, snap_rows, quote_pc,
               quote_resps>>
vars == <<tagVars, iahVars, rssVars, newsVars, quoteVars>>

(***************************************************************************)
(* Strings                                                                 *)
(***************************************************************************)

\* Python's None; "$" occurs in no string of the model.
None == "$None"

\* The characters of the model's strings in code-point order.
Ascii == " &+,-0123456789:;<>ABCDEFGHIJKLMNOPQRSTUVWXYZabcdefghijklmnopqrstuvwxyz"

Upper == "ABCDEFGHIJKLMNOPQRSTUVWXYZ"
LowerLetters == "abcdefghijklmnopqrstuvwxyz"
Digits == "0123456789"

At(s, i) == SubSeq(s, i, i)

\* position of character c in string s, 0 when absent
IndexOf(s, c) ==
    IF \E i \in 1..Len(s) : At(s, i) = c
    THEN CHOOSE i \in 1..Len(s) : At(s, i) = c /\ \A j \in 1..(i - 1) : At(s, j) # c
    ELSE 0

CharsOf(s) == {At(s, i) : i \in 1..Len(s)}

\* the rank of each character in code-point order
OrdTable == [c \in CharsOf(Ascii) |-> IndexOf(Ascii, c)]
Ord(c) == OrdTable[c]

DigitTable == [c \in CharsOf(Digits) |-> IndexOf(Digits, c) - 1]
IsDigit(c) == c \in DOMAIN DigitTable
DigitVal(c) == DigitTable[c]
IsSpace(c) == c = " "

LowerTable == [c \in CharsOf(Upper) |-> At(LowerLetters, IndexOf(Upper, c))]
\* str.lower() on one character
LowerChar(c) == IF c \in DOMAIN LowerTable THEN LowerTable[c] ELSE c

RECURSIVE lower(_)
\* str.lower()
lower(s) == IF s = "" THEN "" ELSE LowerChar(Head(s)) \o lower(Tail(s))

\* k in txt (substring test)
Contains(txt, k) ==
    \E i \in 1..(Len(txt) - Len(k) + 1) : SubSeq(txt, i, i + Len(k) - 1) = k

\* s1 < s2 in Python's str ordering (code points, a proper prefix first)
StrLess(s1, s2) ==
    \E i \in 1..Len(s2) :
        /\ i <= Len(s1) + 1
        /\ SubSeq(s1, 1, i - 1) = SubSeq(s2, 1, i - 1)
        /\ (i = Len(s1) + 1 \/ Ord(At(s1, i)) < Ord(At(s2, i)))

RECURSIVE Concat(_)
\* "".join(words)
Concat(words) == IF words = <<>> THEN "" ELSE Head(words) \o Concat(Tail(words))

\* all sequences over S of length at most n
SeqsUpTo(S, n) == UNION {[1..k -> S] : k \in 0..n}

(***************************************************************************)
(* tag_article                                                             *)
(***************************************************************************)

GEO_KEYWORDS ==
    <<"sanction", "war", "conflict", "geopolit", "tariff", "trade war", "election",
      "sanctions", "military", "rally", "protest", "embargo", "blockade",
      "cyber attack", "terror">>
MACRO_KEYWORDS ==
    <<"inflation", "cpi", "gdp", "unemployment", "rate cut", "rate hike",
      "interest rate", "rbi", "fed">>
ACTION_KEYWORDS ==
    <<"dividend", "buyback", "board", "merger", "acquisition", "ipo",
      "rights issue", "debt">>

\* any(k in txt for k in keywords)
AnyKeyword(keywords, txt) == \E i \in 1..Len(keywords) : Contains(txt, keywords[i])

\* (text or "").lower() with lower() left out
NormalizeNoLower(t) == IF t = None \/ t = "" THEN "" ELSE t

\* txt = (text or "").lower()
Normalize(t) == IF t = None \/ t = "" THEN "" ELSE lower(t)

tag_article(t) ==
    LET txt == Normalize(t)
        t1 == IF AnyKeyword(GEO_KEYWORDS, txt) THEN <<"Geopolitical">> ELSE <<>>
        t2 == IF AnyKeyword(MACRO_KEYWORDS, txt) THEN t1 \o <<"Macro">> ELSE t1
        t3 == IF AnyKeyword(ACTION_KEYWORDS, txt) THEN t2 \o <<"Corporate Action">> ELSE t2
    IN  IF t3 = <<>> THEN <<"General">> ELSE t3

\* Bound: number of fragments an input text is built from.
MaxWords == 3

\* Fragments of input texts: keywords in mixed case, keywords split in two, filler.
Words == {"War", "wa", "r", "RBI", "Fed", "ipo", "IPO", " ", "x", "rate", "Hike"}

TagInputs == {None} \cup {Concat(w) : w \in SeqsUpTo(Words, MaxWords)}

TagInit ==
    /\ text \in TagInputs
    /\ tags = <<>>
    /\ tag_pc = "call"

\* one call tag_article(text)
TagArticle ==
    /\ tag_pc = "call"
    /\ tags' = tag_article(text)
    /\ tag_pc' = "returned"
    /\ UNCHANGED text

(***************************************************************************)
(* datetime: a date is its proleptic Gregorian ordinal (1 = 0001-01-01),   *)
(* a time of day its second of the day; datetime values outside            *)
(* 0001-01-01 .. 9999-12-31 do not exist (OverflowError).                  *)
(***************************************************************************)

IsLeap(y) == y % 4 = 0 /\ (y % 100 # 0 \/ y % 400 = 0)

DaysInMonth(y, m) ==
    IF m = 2 THEN (IF IsLeap(y) THEN 29 ELSE 28)
    ELSE IF m \in {4, 6, 9, 11} THEN 30 ELSE 31

DaysBeforeYear(y) ==
    (y - 1) * 365 + ((y - 1) \div 4) - ((y - 1) \div 100) + ((y - 1) \div 400)

RECURSIVE DaysBeforeMonth(_, _)
DaysBeforeMonth(y, m) ==
    IF m = 1 THEN 0 ELSE DaysBeforeMonth(y, m - 1) + DaysInMonth(y, m - 1)

\* date(y, m, d).toordinal()
Ymd2Ord(y, m, d) == DaysBeforeYear(y) + DaysBeforeMonth(y, m) + d

MinOrdinal == Ymd2Ord(1, 1, 1)
MaxOrdinal == Ymd2Ord(9999, 12, 31)
DaySeconds == 24 * 3600

\* the datetime constructor accepts (y, m, d, H, M, S)
ValidDateTime(y, m, d, H, M, S) ==
    /\ y \in 1..9999
    /\ m \in 1..12
    /\ d \in 1..DaysInMonth(y, m)
    /\ H \in 0..23 /\ M \in 0..59 /\ S \in 0..59

NoDt == [ord |-> 0, sec |-> 0, aware |-> FALSE, off |-> 0]

\* dt + timedelta(seconds = delta): the sum, or OverflowError
DtAdd(dt, delta) ==
    LET total == dt.sec + delta
        days == IF total >= 0 THEN total \div DaySeconds
                ELSE -((-total + DaySeconds - 1) \div DaySeconds)
        o == dt.ord + days
    IN  IF o < MinOrdinal \/ o > MaxOrdinal
        THEN [exc |-> "OverflowError", dt |-> NoDt]
        ELSE [exc |-> "", dt |-> [dt EXCEPT !.ord = o, !.sec = total - days * DaySeconds]]

Hour(dt) == dt.sec \div 3600
Minute(dt) == (dt.sec % 3600) \div 60

(***************************************************************************)
(* datetime.strptime: the format is turned into a regular expression that  *)
(* is matched, ignoring case, against a prefix of the string, alternatives *)
(* tried in order with backtracking; the fields found build the datetime.  *)
(***************************************************************************)

Weekdays == {"mon", "tue", "wed", "thu", "fri", "sat", "sun"}
Months == <<"jan", "feb", "mar", "apr", "may", "jun",
            "jul", "aug", "sep", "oct", "nov", "dec">>

\* the fields before any directive is read
Dflt == [Y |-> 1900, m |-> 1, d |-> 1, H |-> 0, M |-> 0, S |-> 0,
         z |-> 0, aware |-> FALSE, bad |-> FALSE]

NoMatch == [ok |-> FALSE, end |-> 0, f |-> Dflt]

\* one way to match at a position: characters consumed, field set, value
Cand(n, k, v) == [len |-> n, key |-> k, val |-> v, bad |-> FALSE]

\* s[i : i + n], "" past the end of s
Sub(s, i, n) == IF i + n - 1 <= Len(s) THEN SubSeq(s, i, i + n - 1) ELSE ""

\* the digit at position i of s, -1 when there is none
D(s, i) == IF i <= Len(s) /\ IsDigit(At(s, i)) THEN DigitVal(At(s, i)) ELSE -1

Num2(s, i) == 10 * D(s, i) + D(s, i + 1)

\* [A][B] as a two-digit alternative, [A] as a one-digit alternative
Two(s, i, A, B, k) ==
    IF D(s, i) \in A /\ D(s, i + 1) \in B THEN <<Cand(2, k, Num2(s, i))>> ELSE <<>>
One(s, i, A, k) ==
    IF D(s, i) \in A THEN <<Cand(1, k, D(s, i))>> ELSE <<>>

\* the names of set names found at position i of s, longest first
RECURSIVE NameCands(_, _, _, _)
NameCands(s, i, names, n) ==
    IF n = 0 THEN <<>>
    ELSE (IF lower(Sub(s, i, n)) \in names THEN <<Cand(n, "", 0)>> ELSE <<>>)
         \o NameCands(s, i, names, n - 1)

MaxNameLen(names) == IF names = {} THEN 0
                     ELSE CHOOSE n \in {Len(x) : x \in names} :
                              \A x \in names : Len(x) <= n

\* %z : [+-]\d\d:?[0-5]\d(:?[0-5]\d)?  or the letter Z
OffsetCands(s, i) ==
    LET sign == IF At(s, i) = "-" THEN -1 ELSE 1
        c1 == IF Sub(s, i + 3, 1) = ":" THEN 1 ELSE 0      \* colon after the hours
        mpos == i + 3 + c1
        hasHM == /\ Sub(s, i, 1) \in {"+", "-"}
                 /\ D(s, i + 1) >= 0 /\ D(s, i + 2) >= 0
                 /\ D(s, mpos) \in 0..5 /\ D(s, mpos + 1) >= 0
        c2 == IF Sub(s, mpos + 2, 1) = ":" THEN 1 ELSE 0   \* colon after the minutes
        spos == mpos + 2 + c2
        hasS == hasHM /\ D(s, spos) \in 0..5 /\ D(s, spos + 1) >= 0
        hm == Num2(s, i + 1) * 3600 + Num2(s, mpos) * 60
        \* "Inconsistent use of :" and int(":3") both raise ValueError
        withS == [len |-> spos + 2 - i, key |-> "z",
                  val |-> sign * (hm + Num2(s, spos)), bad |-> c1 # c2]
    IN  IF i <= Len(s) /\ At(s, i) = "Z" THEN <<Cand(1, "z", 0)>>
        ELSE (IF hasS THEN <<withS>> ELSE <<>>)
             \o (IF hasHM THEN <<Cand(mpos + 2 - i, "z", sign * hm)>> ELSE <<>>)

\* the alternatives of directive %c at position i of s, in the order tried
DirCands(c, s, i, zones) ==
    CASE c = "a" -> IF lower(Sub(s, i, 3)) \in Weekdays THEN <<Cand(3, "", 0)>> ELSE <<>>
      [] c = "b" -> IF \E k \in 1..12 : Months[k] = lower(Sub(s, i, 3))
                    THEN <<Cand(3, "m", CHOOSE k \in 1..12 : Months[k] = lower(Sub(s, i, 3)))>>
                    ELSE <<>>
      [] c = "d" -> Two(s, i, {3}, {0, 1}, "d") \o Two(s, i, {1, 2}, 0..9, "d")
                    \o Two(s, i, {0}, 1..9, "d") \o One(s, i, 1..9, "d")
                    \o (IF Sub(s, i, 1) = " " /\ D(s, i + 1) \in 1..9
                        THEN <<Cand(2, "d", D(s, i + 1))>> ELSE <<>>)
      [] c = "m" -> Two(s, i, {1}, 0..2, "m") \o Two(s, i, {0}, 1..9, "m")
                    \o One(s, i, 1..9, "m")
      [] c = "Y" -> IF \A j \in 0..3 : D(s, i + j) >= 0
                    THEN <<Cand(4, "Y", 100 * Num2(s, i) + Num2(s, i + 2))>> ELSE <<>>
      [] c = "H" -> Two(s, i, {2}, 0..3, "H") \o Two(s, i, {0, 1}, 0..9, "H")
                    \o One(s, i, 0..9, "H")
      [] c = "M" -> Two(s, i, 0..5, 0..9, "M") \o One(s, i, 0..9, "M")
      [] c = "S" -> Two(s, i, {6}, {0, 1}, "S") \o Two(s, i, 0..5, 0..9, "S")
                    \o One(s, i, 0..9, "S")
      [] c = "Z" -> NameCands(s, i, zones, MaxNameLen(zones))
      [] c = "z" -> OffsetCands(s, i)

RECURSIVE SpaceRun(_, _)
\* length of the run of white space of s that starts at position i
SpaceRun(s, i) == IF i <= Len(s) /\ IsSpace(At(s, i)) THEN 1 + SpaceRun(s, i + 1) ELSE 0

\* a run of white space in the format is \s+ , longest run first
RECURSIVE SpaceCands(_)
SpaceCands(n) == IF n = 0 THEN <<>> ELSE <<Cand(n, "", 0)>> \o SpaceCands(n - 1)

\* a character of the format that is no directive
LitCands(c, s, i) ==
    IF IsSpace(c) THEN SpaceCands(SpaceRun(s, i))
    ELSE IF i <= Len(s) /\ LowerChar(At(s, i)) = LowerChar(c) THEN <<Cand(1, "", 0)>> ELSE <<>>

Put(acc, c) ==
    IF c.key = "" THEN acc
    ELSE IF c.key = "z" THEN [acc EXCEPT !.z = c.val, !.aware = TRUE, !.bad = c.bad]
    ELSE [acc EXCEPT ![c.key] = c.val]

RECURSIVE Match(_, _, _, _, _, _), Try(_, _, _, _, _, _, _)
\* match fmt[fi:] against s[si:], fields so far in acc
Match(fmt, fi, s, si, acc, zones) ==
    IF fi > Len(fmt) THEN [ok |-> TRUE, end |-> si, f |-> acc]
    ELSE LET isDir == At(fmt, fi) = "%"
         IN  Try(fmt, IF isDir THEN fi + 2 ELSE fi + 1, s, si, acc, zones,
                 IF isDir THEN DirCands(At(fmt, fi + 1), s, si, zones)
                 ELSE LitCands(At(fmt, fi), s, si))
\* the first alternative of cs after which the rest of the format matches
Try(fmt, nfi, s, si, acc, zones, cs) ==
    IF cs = <<>> THEN NoMatch
    ELSE LET r == Match(fmt, nfi, s, si + Head(cs).len, Put(acc, Head(cs)), zones)
         IN  IF r.ok THEN r ELSE Try(fmt, nfi, s, si, acc, zones, Tail(cs))

\* the names %Z accepts: utc, gmt and the local zone names (time.tzname)
ZoneNames(tz) == {"utc", "gmt", lower(tz[1]), lower(tz[2])}

\* the datetime built from the match r of the whole format against s
FromFields(r, s) ==
    IF \/ ~r.ok                                   \* does not match format
       \/ r.end # Len(s) + 1                      \* unconverted data remains
       \/ r.f.bad \/ r.f.z <= -DaySeconds \/ r.f.z >= DaySeconds
       \/ ~ValidDateTime(r.f.Y, r.f.m, r.f.d, r.f.H, r.f.M, r.f.S)
    THEN [exc |-> "ValueError", dt |-> NoDt]
    ELSE [exc |-> "",
          dt |-> [ord |-> Ymd2Ord(r.f.Y, r.f.m, r.f.d),
                  sec |-> r.f.H * 3600 + r.f.M * 60 + r.f.S,
                  aware |-> r.f.aware, off |-> r.f.z]]

\* datetime.strptime(s, fmt): [exc, dt], exc = "" when a datetime is returned
strptime(s, fmt, tz) ==
    IF s = None THEN [exc |-> "TypeError", dt |-> NoDt]
    ELSE FromFields(Match(fmt, 1, s, 1, Dflt, ZoneNames(tz)), s)

(***************************************************************************)
(* is_after_hours                                                          *)
(***************************************************************************)

\* timedelta(hours=5, minutes=30), in seconds
IST_OFFSET == 5 * 3600 + 30 * 60
MARKET_CLOSE_IST == <<15, 30>>

\* datetime.utcnow() + IST_OFFSET
now_ist(now) == DtAdd(now, IST_OFFSET)

Formats == <<"%a, %d %b %Y %H:%M:%S %Z", "%a, %d %b %Y %H:%M:%S %z",
             "%Y-%m-%dT%H:%M:%SZ", "%Y-%m-%d %H:%M:%S">>

\* the for loop over the formats: pub of the first format that parses,
\* every exception of strptime swallowed; found = FALSE when pub stays None
RECURSIVE TryFormats(_, _, _), BreakOrContinue(_, _, _, _)
TryFormats(s, tz, k) ==
    IF k > Len(Formats) THEN [found |-> FALSE, dt |-> NoDt]
    ELSE BreakOrContinue(strptime(s, Formats[k], tz), s, tz, k)
\* break with pub = r.dt, or except Exception: continue
BreakOrContinue(r, s, tz, k) ==
    IF r.exc = "" THEN [found |-> TRUE, dt |-> r.dt] ELSE TryFormats(s, tz, k + 1)

KnownFormat(s, tz) == TryFormats(s, tz, 1)

\* \d{2}:\d{2}:\d{2} matches s at position i
HmsAt(s, i) ==
    /\ i + 7 <= Len(s)
    /\ \A j \in {0, 1, 3, 4, 6, 7} : IsDigit(At(s, i + j))
    /\ At(s, i + 2) = ":" /\ At(s, i + 5) = ":"

\* m = re.search(r"(\d{2}:\d{2}:\d{2})", s): start of the leftmost match, 0 for no match
SearchHms(s) ==
    IF \E i \in 1..Len(s) : HmsAt(s, i)
    THEN CHOOSE i \in 1..Len(s) : HmsAt(s, i) /\ \A j \in 1..(i - 1) : ~HmsAt(s, j)
    ELSE 0

Return(b) == [raised |-> FALSE, exc |-> "", ret |-> b]
Raise(e) == [raised |-> TRUE, exc |-> e, ret |-> FALSE]

\* (hour, minute) > close, the cutoff itself excluded
AfterClose(h, m, close) == h > close[1] \/ (h = close[1] /\ m > close[2])

\* (hour, minute) >= close, comparing tuples
AtOrAfterClose(h, m, close) == h > close[1] \/ (h = close[1] /\ m >= close[2])

\* pub taken as UTC when naive, converted to UTC when aware, then + IST_OFFSET
ToIst(pub) ==
    IF ~pub.aware THEN DtAdd(pub, IST_OFFSET)
    ELSE LET u == DtAdd(pub, -pub.off)
         IN  IF u.exc # "" THEN u ELSE DtAdd(u.dt, IST_OFFSET)

\* lines 180-185: convert and compare
CompareWithClose(pub_ist) ==
    IF pub_ist.exc # "" THEN Raise(pub_ist.exc)
    ELSE Return(AtOrAfterClose(Hour(pub_ist.dt), Minute(pub_ist.dt), MARKET_CLOSE_IST))

Classify(pub) == CompareWithClose(ToIst(pub))

\* datetime.combine(today, t.time()) of lines 175-176, then the comparison
Combine(today, t) ==
    IF today.exc # "" THEN Raise(today.exc)
    ELSE IF t.exc # "" THEN Raise(t.exc)
    ELSE Classify([ord |-> today.dt.ord, sec |-> t.dt.sec, aware |-> FALSE, off |-> 0])

\* the fallback giving up as soon as the known formats fail
FallbackFalse(s, tz, now) == IF s = None THEN Raise("TypeError") ELSE Return(FALSE)

\* lines 170-178: pub from the first embedded HH:MM:SS and today's date
Fallback(s, tz, now) ==
    IF s = None THEN Raise("TypeError")
    ELSE IF SearchHms(s) = 0 THEN Return(FALSE)
    ELSE Combine(now_ist(now), strptime(Sub(s, SearchHms(s), 8), "%H:%M:%S", tz))

\* "if not pub" after the loop over the formats
KnownOrFallback(known, s, tz, now) ==
    IF known.found THEN Classify(known.dt) ELSE Fallback(s, tz, now)

\* the body of the outer try
Body(s, tz, now) == KnownOrFallback(KnownFormat(s, tz), s, tz, now)

\* the body without the outer handler
is_after_hours_uncaught(s, tz, now) == Body(s, tz, now)

\* except Exception: return False
ExceptFalse(r) == IF r.raised THEN Return(FALSE) ELSE r

\* try: body  except Exception: return False
is_after_hours(s, tz, now) == ExceptFalse(Body(s, tz, now))

\* Published strings the filter is called with.
DateParts == {
    [wd |-> "Mon", dd |-> "01", mon |-> "Jan", mm |-> "01", yyyy |-> "0001"],
    [wd |-> "Mon", dd |-> "02", mon |-> "Jan", mm |-> "01", yyyy |-> "2024"],
    [wd |-> "Fri", dd |-> "31", mon |-> "Dec", mm |-> "12", yyyy |-> "9999"],
    [wd |-> "Fri", dd |-> "30", mon |-> "Feb", mm |-> "02", yyyy |-> "2024"]}
ValidDates == {d \in DateParts : d.mon # "Feb"}
HourParts == {"00", "09", "10", "15", "18", "23"}
MinuteParts == {"00", "29", "30", "59"}
SecondParts == {"00", "59"}
ZoneParts == {"GMT", "IST", "Z", "+0530", "-1100", "+1000"}

Clock(h, m, sc) == h \o ":" \o m \o ":" \o sc
Rfc(d, c, z) == d.wd \o ", " \o d.dd \o " " \o d.mon \o " " \o d.yyyy \o " " \o c \o " " \o z
Iso(d, sep, c, z) == d.yyyy \o "-" \o d.mm \o "-" \o d.dd \o sep \o c \o z

\* times of day, and HH:MM:SS that are none
Clocks == {Clock(h, m, sc) : h \in HourParts, m \in MinuteParts, sc \in SecondParts}
BadClocks == {"24:00:00", "10:60:00", "10:00:60", "99:99:99"}

TimeInputs ==
    {None, "", "garbage", "2024-01-02 16:00", "2024-1-2 8:0:0", "2024-1-2 10:0:0",
     "99:99:99 16:00:00", "16:00:00 99:99:99", "08:00:00 16:00:00",
     "Mon, 02 Jan 2024 16:00:00 GMT", "Mon, 02 Jan 2024 08:00:00 GMT",
     "mon,  2 jan 2024 16:00:00 gmt", "2024-01-02t16:00:00z"}
    \cup {Rfc(d, c, z) : d \in ValidDates, c \in Clocks \cup BadClocks, z \in ZoneParts}
    \cup {Rfc(d, "16:00:00", z) : d \in DateParts,
                                  z \in {"GMT", "EST", "+05:30", "+2400", "+05:3000", "+053000"}}
    \cup {Iso(d, "T", c, z) : d \in ValidDates, c \in Clocks \cup BadClocks, z \in {"Z", "+05:30"}}
    \cup {Iso(d, " ", c, "") : d \in DateParts, c \in Clocks \cup BadClocks}
    \cup {"at " \o c : c \in Clocks \cup BadClocks}

\* time.tzname of the machine
TzNames == {<<"UTC", "UTC">>, <<"IST", "IST">>}

\* datetime.utcnow() at the call
Clocknow == {[ord |-> Ymd2Ord(2024, 1, 2), sec |-> 20 * 3600, aware |-> FALSE, off |-> 0],
             [ord |-> Ymd2Ord(2026, 11, 6), sec |-> 7 * 3600, aware |-> FALSE, off |-> 0]}

TimeInit ==
    /\ pub_dt_str \in TimeInputs
    /\ tzname \in TzNames
    /\ utcnow \in Clocknow
    /\ iah_pc = "call"
    /\ iah_ret = FALSE

\* one call is_after_hours(pub_dt_str)
IsAfterHours ==
    /\ iah_pc = "call"
    /\ \E r \in {is_after_hours(pub_dt_str, tzname, utcnow)} :
           /\ iah_pc' = IF r.raised THEN "raised" ELSE "returned"
           /\ iah_ret' = r.ret
    /\ UNCHANGED <<pub_dt_str, tzname, utcnow>>

IahIdle ==
    /\ pub_dt_str = None
    /\ tzname = <<"UTC", "UTC">>
    /\ utcnow = NoDt
    /\ iah_pc = "idle"
    /\ iah_ret = FALSE

(***************************************************************************)
(* parse_rss                                                               *)
(***************************************************************************)

Min(a, b) == IF a <= b THEN a ELSE b

\* a or b, for strings and None
Or(a, b) == IF a = None \/ a = "" THEN b ELSE a

RECURSIVE LStrip(_), RStrip(_)
LStrip(s) == IF s # "" /\ IsSpace(Head(s)) THEN LStrip(Tail(s)) ELSE s
RStrip(s) ==
    IF s # "" /\ IsSpace(At(s, Len(s))) THEN RStrip(SubSeq(s, 1, Len(s) - 1)) ELSE s
\* str.strip()
strip(s) == RStrip(LStrip(s))

\* html.entities.html5, the entries whose names the feed texts of the model can spell
html5 == ("amp;" :> "&") @@ ("amp" :> "&") @@ ("lt;" :> "<") @@ ("lt" :> "<")
         @@ ("gt;" :> ">") @@ ("gt" :> ">")

RECURSIVE NameRun(_, _, _)
\* length of the run [^ <&;]{0,32} of s that starts at position i
NameRun(s, i, n) ==
    IF n < 32 /\ i + n <= Len(s) /\ At(s, i + n) \notin {" ", "<", "&", ";"}
    THEN NameRun(s, i, n + 1) ELSE n

RECURSIVE PrefixRef(_, _)
\* the longest prefix of name, of two characters or more, that is an entity
PrefixRef(name, x) ==
    IF x < 2 THEN "&" \o name
    ELSE IF SubSeq(name, 1, x) \in DOMAIN html5
         THEN html5[SubSeq(name, 1, x)] \o SubSeq(name, x + 1, Len(name))
         ELSE PrefixRef(name, x - 1)

\* what html.unescape puts for the reference &name
CharRef(name) ==
    IF name \in DOMAIN html5 THEN html5[name] ELSE PrefixRef(name, Len(name) - 1)

RECURSIVE unescape(_)
\* html.unescape(s), named references
unescape(s) ==
    IF s = "" THEN ""
    ELSE IF Head(s) # "&" THEN Head(s) \o unescape(Tail(s))
    ELSE LET n == NameRun(s, 2, 0)
             semi == IF n + 2 <= Len(s) /\ At(s, n + 2) = ";" THEN 1 ELSE 0
         IN  IF n = 0 THEN "&" \o unescape(Tail(s))
             ELSE CharRef(SubSeq(s, 2, n + 1 + semi))
                  \o unescape(SubSeq(s, n + 2 + semi, Len(s)))

\* position of the first ">" of s after position i, 0 when there is none
NextGt(s, i) ==
    IF \E j \in (i + 1)..Len(s) : At(s, j) = ">"
    THEN CHOOSE j \in (i + 1)..Len(s) :
             At(s, j) = ">" /\ \A k \in (i + 1)..(j - 1) : At(s, k) # ">"
    ELSE 0

RECURSIVE StripTags(_)
\* re.sub(r'<[^>]+>', '', s)
StripTags(s) ==
    IF s = "" THEN ""
    ELSE IF Head(s) = "<" /\ NextGt(s, 1) > 2
         THEN StripTags(SubSeq(s, NextGt(s, 1) + 1, Len(s)))
         ELSE Head(s) \o StripTags(Tail(s))

\* seq[:n + 1], one element too many
SliceOneMore(seq, n) == SubSeq(seq, 1, Min(n + 1, Len(seq)))

\* seq[:n]
Slice(seq, n) ==
    IF n >= 0 THEN SubSeq(seq, 1, Min(n, Len(seq)))
    ELSE SubSeq(seq, 1, IF Len(seq) + n > 0 THEN Len(seq) + n ELSE 0)

IsItem(node) == node.tag = "item"

\* root.findall(".//item"): the item elements below the root in document order
FindItems(doc) == SelectSeq(doc, IsItem)

\* elem.findtext(tag): None without such a child, "" for a child without text
findtext(elem, tag) == elem[tag]

\* the dict appended for one item element
ItemRecord(elem) ==
    LET title == Or(findtext(elem, "title"), "")
        link == Or(findtext(elem, "link"), "")
        pub == Or(findtext(elem, "pubDate"), Or(findtext(elem, "published"), ""))
        desc == Or(findtext(elem, "description"), Or(findtext(elem, "summary"), ""))
    IN  [title |-> unescape(strip(title)),
         link |-> strip(link),
         published |-> strip(pub),
         summary |-> strip(StripTags(desc))]

\* The response to requests.get: an exception (timeout, connection error),
\* or a status with a body that is well-formed XML (the elements below its
\* root, in document order) or is not.
Response(kind, status, wellformed, doc) ==
    [kind |-> kind, status |-> status, wellformed |-> wellformed, doc |-> doc]

Returns(v) == [raised |-> FALSE, val |-> v]
Raises == [raised |-> TRUE, val |-> <<>>]

\* the body of the try of parse_rss when requests.get answers resp
parse_rss_body(resp, n) ==
    IF resp.kind # "response" THEN Raises          \* requests.get raised
    ELSE IF resp.status # 200 THEN Returns(<<>>)
    ELSE IF ~resp.wellformed THEN Raises           \* ET.fromstring raised
    ELSE LET elems == Slice(FindItems(resp.doc), n)
         IN  Returns([k \in 1..Len(elems) |-> ItemRecord(elems[k])])

\* the body without the handler
parse_rss_uncaught(resp, n) == parse_rss_body(resp, n)

\* parse_rss(url, max_items): try: body  except Exception: return []
parse_rss(resp, n) ==
    LET r == parse_rss_body(resp, n)
    IN  IF r.raised THEN Returns(<<>>) ELSE r

Elem(tag, title, link, pubDate, published, description, summary) ==
    [tag |-> tag, title |-> title, link |-> link, pubDate |-> pubDate,
     published |-> published, description |-> description, summary |-> summary]

\* Elements of the feed documents: a full item, an item with the alternate
\* children only, an item without children, an item whose children are
\* empty, an element that is no item.
FullItem == Elem("item", " A &amp; B ", " http://x/1 ", " Mon, 02 Jan 2024 16:00:00 GMT",
                 "2024-01-02 08:00:00", "<b>x</b> y &lt;", "ignored")
AltItem == Elem("item", None, None, None, "2024-01-02 16:00:00", None, " <p>s</p> ")
BareItem == Elem("item", None, None, None, None, None, None)
EmptyItem == Elem("item", "", "http://x/4", "", "", "", "")
NoItem == Elem("title", "A", "http://x/5", "x", "x", "x", "x")
RssElems == {FullItem, AltItem, BareItem, EmptyItem, NoItem}

\* Bounds: elements of a document, largest max_items.
MaxNodes == 3
MaxItemsArg == 3

RssResponses ==
    {Response("timeout", 0, FALSE, <<>>), Response("response", 200, FALSE, <<>>)}
    \cup {Response("response", st, TRUE, d) :
              st \in {200, 404}, d \in SeqsUpTo(RssElems, MaxNodes)}

RssInit ==
    /\ rss_resp \in RssResponses
    /\ max_items \in 0..MaxItemsArg
    /\ rss_items = <<>>
    /\ rss_pc = "call"

\* one call parse_rss(url, max_items)
ParseRss ==
    /\ rss_pc = "call"
    /\ LET r == parse_rss(rss_resp, max_items)
       IN  /\ rss_items' = r.val
           /\ rss_pc' = IF r.raised THEN "raised" ELSE "returned"
    /\ UNCHANGED <<rss_resp, max_items>>

RssIdle ==
    /\ rss_resp = Response("none", 0, FALSE, <<>>)
    /\ max_items = 0
    /\ rss_items = <<>>
    /\ rss_pc = "idle"

(***************************************************************************)
(* fetch_bse_announcements                                                 *)
(***************************************************************************)

IsAnnouncement(node) == node.tag = "Announcement"

\* the dict appended for one Announcement element
AnnRecord(ann) ==
    [title |-> Or(findtext(ann, "Subject"), Or(findtext(ann, "Head"), "Announcement")),
     date |-> Or(findtext(ann, "Dt"), findtext(ann, "Date")),
     link |-> Or(findtext(ann, "URL"), "")]

\* the body of the try of fetch_bse_announcements
fetch_bse_uncaught(resp, limit) ==
    IF resp.kind # "response" THEN Raises
    ELSE IF resp.status # 200 THEN Returns(<<>>)
    ELSE IF ~resp.wellformed THEN Raises
    ELSE LET anns == Slice(SelectSeq(resp.doc, IsAnnouncement), limit)
         IN  Returns([k \in 1..Len(anns) |-> AnnRecord(anns[k])])

\* fetch_bse_announcements(limit): try: body  except Exception: return []
fetch_bse_announcements(resp, limit) ==
    LET r == fetch_bse_uncaught(resp, limit)
    IN  IF r.raised THEN Returns(<<>>) ELSE r

(***************************************************************************)
(* The refresh: merge, sort, after-hours filter, dedup                     *)
(***************************************************************************)

RSS_FEEDS ==
    ("Economic Times - Markets" :>
        "https://economictimes.indiatimes.com/markets/rssfeeds/1977021501.cms")
    @@ ("Times of India - Business" :>
        "https://timesofindia.indiatimes.com/rssfeeds/1221656.cms")
    @@ ("Moneycontrol - Markets" :> "https://www.moneycontrol.com/rss/markets.xml")
    @@ ("BSE News (RSS - example)" :>
        "https://www.bseindia.com/xml-data/corpfiling/Equity/Equity.xml")
    @@ ("AMFI News (site)" :> "https://www.amfiindia.com/latest-news")

\* list(RSS_FEEDS.keys()): the options of the multiselect, and its default
FeedOptions ==
    <<"Economic Times - Markets", "Times of India - Business", "Moneycontrol - Markets",
      "BSE News (RSS - example)", "AMFI News (site)">>

\* the items of one feed with it["source"] = feed_name
WithSource(items, name) ==
    [k \in 1..Len(items) |->
        [title |-> items[k].title, link |-> items[k].link,
         published |-> items[k].published, summary |-> items[k].summary,
         source |-> name]]

\* the dicts appended to NEWS for the BSE announcements
BseNews(anns) ==
    [k \in 1..Len(anns) |->
        [title |-> anns[k].title, link |-> anns[k].link, published |-> anns[k].date,
         summary |-> "", source |-> "BSE Announcements"]]

\* pub_key(x): x.get("published") or ""
pub_key(x) == Or(x.published, "")

\* acc, sorted descending, with x put after every element whose key is >= its key
InsertDesc(acc, x) ==
    LET n == Cardinality({i \in 1..Len(acc) : ~StrLess(pub_key(acc[i]), pub_key(x))})
    IN  SubSeq(acc, 1, n) \o <<x>> \o SubSeq(acc, n + 1, Len(acc))

\* acc, sorted ascending, with x put after every element whose key is <= its key
InsertAsc(acc, x) ==
    LET n == Cardinality({i \in 1..Len(acc) : ~StrLess(pub_key(x), pub_key(acc[i]))})
    IN  SubSeq(acc, 1, n) \o <<x>> \o SubSeq(acc, n + 1, Len(acc))

RECURSIVE SortAsc(_, _)
SortAsc(seq, acc) ==
    IF seq = <<>> THEN acc ELSE SortAsc(Tail(seq), InsertAsc(acc, Head(seq)))

Reverse(seq) == [k \in 1..Len(seq) |-> seq[Len(seq) + 1 - k]]

\* sorted(news, key=pub_key)[::-1]: descending, equal keys in reverse order
SortedThenReversed(news) == Reverse(SortAsc(news, <<>>))

RECURSIVE SortDesc(_, _)
SortDesc(seq, acc) ==
    IF seq = <<>> THEN acc ELSE SortDesc(Tail(seq), InsertDesc(acc, Head(seq)))

\* sorted(news, key=pub_key, reverse=True): descending and stable
SortedByPublished(news) == SortDesc(news, <<>>)

RECURSIVE FilterLoop(_, _, _, _), KeepOrDrop(_, _, _, _, _)
\* the comprehension, the records kept so far in acc
FilterLoop(news, tz, now, acc) ==
    IF news = <<>> THEN Returns(acc)
    ELSE KeepOrDrop(is_after_hours(Head(news).published, tz, now), news, tz, now, acc)
\* "if is_after_hours(...)" for the first record of news
KeepOrDrop(r, news, tz, now, acc) ==
    IF r.raised THEN Raises
    ELSE FilterLoop(Tail(news), tz, now, IF r.ret THEN Append(acc, Head(news)) ELSE acc)

\* [n for n in news if is_after_hours(n.get("published", ""))]
OnlyAfterHours(news, tz, now) == FilterLoop(news, tz, now, <<>>)

RECURSIVE DedupAdjacent(_, _, _)
\* the loop with seen holding the last title only
DedupAdjacent(items, seen, NEWS_UNIQ) ==
    IF items = <<>> THEN NEWS_UNIQ
    ELSE LET t == Or(Head(items).title, "")
         IN  IF t \in seen THEN DedupAdjacent(Tail(items), seen, NEWS_UNIQ)
             ELSE DedupAdjacent(Tail(items), {t}, Append(NEWS_UNIQ, Head(items)))

RECURSIVE DedupLoop(_, _, _)
\* the loop over NEWS with the set seen and the list NEWS_UNIQ
DedupLoop(items, seen, NEWS_UNIQ) ==
    IF items = <<>> THEN NEWS_UNIQ
    ELSE LET t == Or(Head(items).title, "")
         IN  IF t \in seen THEN DedupLoop(Tail(items), seen, NEWS_UNIQ)
             ELSE DedupLoop(Tail(items), seen \cup {t}, Append(NEWS_UNIQ, Head(items)))

\* the dedup loop run before the filter: the first record of each title
\* decides whether the title stays
DedupThenFilter(news, on, tz, now) ==
    IF on THEN OnlyAfterHours(DedupLoop(news, {}, <<>>), tz, now) ELSE Returns(news)

\* the filter stage: NEWS after "if st.session_state.after_hours: ..."
FilterStage(news, on, tz, now) ==
    IF on THEN OnlyAfterHours(news, tz, now) ELSE Returns(news)

\* Published strings of the feed items: an RFC date before the close, a
\* plain date-time after it (10:30 UTC is 16:00 IST)
BeforeClose == "Mon, 02 Jan 2024 08:00:00 GMT"
AfterCloseStr == "2024-01-02 10:30:00"

NewsItem(title, pubDate) == Elem("item", title, "http://x", pubDate, None, None, None)

Ann(subject, head, dt, date, url) ==
    [tag |-> "Announcement", Subject |-> subject, Head |-> head, Dt |-> dt,
     Date |-> date, URL |-> url]

\* Documents the feeds answer with
FiveItems ==
    <<NewsItem("A", BeforeClose), NewsItem("B", AfterCloseStr), NewsItem("C", BeforeClose),
      NewsItem("D", None), NewsItem("", AfterCloseStr)>>
TwoItems == <<NewsItem(" A ", AfterCloseStr), NewsItem("B", BeforeClose)>>

FeedResponses ==
    {Response("timeout", 0, FALSE, <<>>),
     Response("response", 404, TRUE, FiveItems),
     Response("response", 200, FALSE, <<>>),
     Response("response", 200, TRUE, FiveItems),
     Response("response", 200, TRUE, TwoItems)}

BseResponses ==
    {Response("timeout", 0, FALSE, <<>>),
     Response("response", 200, TRUE, <<>>),
     Response("response", 200, TRUE,
              <<Ann("A", None, AfterCloseStr, None, "http://bse/1"),
                Ann(None, None, None, None, None)>>)}

\* Bound: number of feeds selected in the sidebar.
MaxFeeds == 2

\* the sub-lists of the options, in the order of the options
Selections ==
    {sel \in SeqsUpTo({FeedOptions[i] : i \in 1..Len(FeedOptions)}, MaxFeeds) :
        \E pos \in [1..Len(sel) -> 1..Len(FeedOptions)] :
            /\ \A k \in 1..Len(sel) : FeedOptions[pos[k]] = sel[k]
            /\ \A k \in 1..(Len(sel) - 1) : pos[k] < pos[k + 1]}

\* st.number_input("Articles per source", min_value=3, max_value=30, value=10)
ArticlesMin == 3
ArticlesDefault == 10

\* the clock and zone of the machine during a refresh
RefreshEnv ==
    /\ tzname = <<"UTC", "UTC">>
    /\ utcnow = [ord |-> Ymd2Ord(2026, 11, 6), sec |-> 7 * 3600, aware |-> FALSE, off |-> 0]

NewsInit ==
    /\ feeds_checked \in Selections
    /\ articles_per \in {ArticlesMin, ArticlesDefault}
    /\ after_hours \in BOOLEAN
    /\ pc = "feeds"
    /\ feed_i = 1
    /\ NEWS = <<>>
    /\ bse_anns = <<>>
    /\ fetched = <<>>
    /\ merged = <<>>
    /\ sorted_news = <<>>

\* one turn of "for feed_name in feeds_checked"
FetchFeed ==
    /\ pc = "feeds"
    /\ feed_i <= Len(feeds_checked)
    /\ \E resp \in FeedResponses :
        LET feed_name == feeds_checked[feed_i]
            r == parse_rss(resp, articles_per)
        IN  IF feed_name \notin DOMAIN RSS_FEEDS        \* if not url: continue
            THEN /\ feed_i' = feed_i + 1
                 /\ UNCHANGED <<pc, NEWS, fetched>>
            ELSE IF r.raised
            THEN /\ pc' = "error"
                 /\ UNCHANGED <<feed_i, NEWS, fetched>>
            ELSE /\ NEWS' = NEWS \o WithSource(r.val, feed_name)
                 /\ fetched' = Append(fetched, [name |-> feed_name, resp |-> resp])
                 /\ feed_i' = feed_i + 1
                 /\ pc' = pc
    /\ UNCHANGED <<feeds_checked, articles_per, after_hours, bse_anns, merged, sorted_news>>

\* bse_anns = fetch_bse_announcements(limit=8) and the appends to NEWS
FetchBse ==
    /\ pc = "feeds"
    /\ feed_i > Len(feeds_checked)
    /\ \E resp \in BseResponses :
        LET r == fetch_bse_announcements(resp, 8)
        IN  IF r.raised
            THEN /\ pc' = "error"
                 /\ UNCHANGED <<NEWS, bse_anns, merged>>
            ELSE /\ bse_anns' = r.val
                 /\ NEWS' = NEWS \o BseNews(r.val)
                 /\ merged' = NEWS \o BseNews(r.val)
                 /\ pc' = "sort"
    /\ UNCHANGED <<feeds_checked, articles_per, after_hours, feed_i, fetched, sorted_news>>

\* NEWS = sorted(NEWS, key=pub_key, reverse=True)
Sort ==
    /\ pc = "sort"
    /\ NEWS' = SortedByPublished(NEWS)
    /\ sorted_news' = SortedByPublished(NEWS)
    /\ pc' = "filter"
    /\ UNCHANGED <<feeds_checked, articles_per, after_hours, feed_i, bse_anns, fetched, merged>>

\* if st.session_state.after_hours: NEWS = [...]
Filter ==
    /\ pc = "filter"
    /\ \E r \in {FilterStage(NEWS, after_hours, tzname, utcnow)} :
           /\ NEWS' = IF r.raised THEN NEWS ELSE r.val
           /\ pc' = IF r.raised THEN "error" ELSE "dedup"
    /\ UNCHANGED <<feeds_checked, articles_per, after_hours, feed_i, bse_anns,
                   fetched, merged, sorted_news>>

\* the dedup loop and NEWS = NEWS_UNIQ
Dedup ==
    /\ pc = "dedup"
    /\ NEWS' = DedupLoop(NEWS, {}, <<>>)
    /\ pc' = "done"
    /\ UNCHANGED <<feeds_checked, articles_per, after_hours, feed_i, bse_anns,
                   fetched, merged, sorted_news>>

NewsIdle ==
    /\ feeds_checked = <<>> /\ articles_per = ArticlesDefault /\ after_hours = FALSE
    /\ pc = "idle" /\ feed_i = 1 /\ NEWS = <<>> /\ bse_anns = <<>>
    /\ fetched = <<>> /\ merged = <<>> /\ sorted_news = <<>>

\* Bound: length of a merged list given to the sort.
MaxNews == 3

\* Records of a merged list: two titles, one of them empty; a published
\* string before the close, one after it, an empty one and None
MergedRecords ==
    {[title |-> t, link |-> "http://x", published |-> p, summary |-> "", source |-> "feed"] :
        t \in {"A", ""}, p \in {BeforeClose, AfterCloseStr, "", None}}

\* any merged list, at the start of the sort
MergeInit ==
    /\ feeds_checked = <<>>
    /\ articles_per = ArticlesDefault
    /\ after_hours \in BOOLEAN
    /\ pc = "sort"
    /\ feed_i = 1
    /\ NEWS \in SeqsUpTo(MergedRecords, MaxNews)
    /\ bse_anns = <<>>
    /\ fetched = <<>>
    /\ merged = NEWS
    /\ sorted_news = <<>>

(***************************************************************************)
(* fetch_yahoo_quote, the quotes row and the snapshot table                *)
(*                                                                         *)
(* A JSON value is its JSON text: a number 1.5 is "1.5", a string is its   *)
(* text with the quotes, null and a missing key are None.                  *)
(***************************************************************************)

Quote == "\""
IsJsonString(v) == v # None /\ Len(v) >= 2 /\ At(v, 1) = Quote
IsJsonNumber(v) == v # None /\ ~IsJsonString(v)

\* bool(v) is False: None, "", 0
Falsy(v) == v = None \/ v = Quote \o Quote \/ v \in {"0", "0.0"}

\* a or b
JsonOr(a, b) == IF Falsy(a) THEN b ELSE a

\* f"{v}"
PyStr(v) ==
    IF v = None THEN "None"
    ELSE IF IsJsonString(v) THEN SubSeq(v, 2, Len(v) - 1)
    ELSE v

\* f"{v:.2f}" for a number of at most two decimals
Fmt2(v) ==
    LET dot == IndexOf(v, ".")
    IN  IF dot = 0 THEN v \o ".00"
        ELSE IF Len(v) - dot = 1 THEN v \o "0"
        ELSE v

NoQuote == [none |-> TRUE]

QuoteReturns(v) == [raised |-> FALSE, val |-> v]
QuoteRaises == [raised |-> TRUE, val |-> NoQuote]

\* the dict returned for q0 = q[0]
QuoteDict(q0) ==
    IF IsJsonString(JsonOr(q0.regularMarketTime, None))
    THEN QuoteRaises                                   \* fromtimestamp of a str
    ELSE QuoteReturns(
           [none |-> FALSE,
            symbol |-> q0.symbol,
            shortName |-> JsonOr(q0.shortName, q0.longName),
            price |-> q0.regularMarketPrice,
            previousClose |-> q0.regularMarketPreviousClose,
            change |-> q0.regularMarketChange,
            percent |-> q0.regularMarketChangePercent,
            time |-> JsonOr(q0.regularMarketTime, "utcnow")])

\* the body of the try of fetch_yahoo_quote when requests.get answers resp
fetch_yahoo_quote_uncaught(symbol, resp) ==
    IF resp.kind # "response" THEN QuoteRaises             \* requests.get raised
    ELSE IF resp.json = "invalid" THEN QuoteRaises         \* r.json() raised
    ELSE IF resp.json = "array" THEN QuoteRaises           \* a list has no get
    ELSE IF resp.quoteResponse = "missing" THEN QuoteReturns(NoQuote)
    ELSE IF resp.quoteResponse = "null" THEN QuoteRaises   \* None has no get
    ELSE IF resp.result = <<>> THEN QuoteReturns(NoQuote)  \* if not q: return None
    ELSE QuoteDict(resp.result[1])

\* fetch_yahoo_quote(symbol): try: body  except Exception: return None
fetch_yahoo_quote(symbol, resp) ==
    LET r == fetch_yahoo_quote_uncaught(symbol, resp)
    IN  IF r.raised THEN QuoteReturns(NoQuote) ELSE r

RECURSIVE Split(_, _)
\* s.split(sep)
Split(s, sep) ==
    IF IndexOf(s, sep) = 0 THEN <<s>>
    ELSE <<SubSeq(s, 1, IndexOf(s, sep) - 1)>>
         \o Split(SubSeq(s, IndexOf(s, sep) + 1, Len(s)), sep)

\* [s.strip() for s in symbols_input.split(",") if s.strip()]
SplitSymbols(input) ==
    LET parts == Split(input, ",")
        NotBlank(x) == strip(x) # ""
        kept == SelectSeq(parts, NotBlank)
    IN  [k \in 1..Len(kept) |-> strip(kept[k])]

\* what the column of symbol s shows for the quote q
Column(s, q) ==
    IF q.none THEN [kind |-> "write", symbol |-> s, shortName |-> "", value |-> "data n/a",
                    delta |-> ""]
    ELSE [kind |-> "metric", symbol |-> PyStr(q.symbol),
          shortName |-> PyStr(JsonOr(q.shortName, Quote \o Quote)),
          value |-> PyStr(q.price),
          delta |-> IF q.percent = None THEN "n/a" ELSE Fmt2(q.percent) \o "%"]

\* the row of the snapshot table for the quote q
SnapRow(q) ==
    [Symbol |-> q.symbol, Name |-> q.shortName, Price |-> q.price, Change |-> q.change,
     ChangePct |-> q.percent]

\* snap_rows: a row for every quote that is not None
SnapRows(qs) ==
    LET Present(q) == ~q.none
        present == SelectSeq(qs, Present)
    IN  [k \in 1..Len(present) |-> SnapRow(present[k])]

Q0(symbol, shortName, longName, price, percent, time) ==
    [symbol |-> symbol, shortName |-> shortName, longName |-> longName,
     regularMarketPrice |-> price, regularMarketPreviousClose |-> price,
     regularMarketChange |-> "0", regularMarketChangePercent |-> percent,
     regularMarketTime |-> time]

QuoteResponse(kind, status, json, quoteResponse, result) ==
    [kind |-> kind, status |-> status, json |-> json, quoteResponse |-> quoteResponse,
     result |-> result]

\* Result lists of the quote endpoint
QuoteResults ==
    {<<>>,
     <<Q0("\"TCS.NS\"", "\"TCS\"", None, "3500.5", "1.5", "1700000000")>>,
     <<Q0("\"TCS.NS\"", None, "\"Tata Consultancy\"", "3500", None, None)>>,
     <<Q0("\"^NSEI\"", "\"\"", None, None, "-0.25", "\"soon\"")>>,
     <<Q0("\"^NSEI\"", "\"\"", None, "24000.1", "\"n/a\"", "0")>>}

\* Answers to one quote request: no answer, or a status with a body
QuoteResponses ==
    {QuoteResponse("timeout", 0, "invalid", "missing", <<>>)}
    \cup {QuoteResponse("response", st, j, "missing", <<>>) :
            st \in {200, 404, 500}, j \in {"invalid", "array", "object"}}
    \cup {QuoteResponse("response", st, "object", "null", <<>>) : st \in {200, 404, 500}}
    \cup {QuoteResponse("response", st, "object", "object", q) :
            st \in {200, 404, 500}, q \in QuoteResults}

\* Texts of the tickers input
SymbolInputs == {"NSEI, ^BSESN", "TCS.NS", " TCS.NS , ,^NSEI,", "", " , "}

QuoteInit ==
    /\ symbols_input \in SymbolInputs
    /\ symbols = SplitSymbols(symbols_input)
    /\ quote_i = 1
    /\ quotes = <<>>
    /\ quote_cols = <<>>
    /\ snap_rows = <<>>
    /\ quote_resps = <<>>
    /\ quote_pc = "quotes"

\* one turn of "for i, s in enumerate(symbols)": the request and the column
FetchQuote ==
    /\ quote_pc = "quotes"
    /\ quote_i <= Len(symbols)
    /\ \E resp \in QuoteResponses :
        \E r \in {fetch_yahoo_quote(symbols[quote_i], resp)} :
            /\ quote_resps' = Append(quote_resps, resp)
            /\ IF r.raised
               THEN /\ quote_pc' = "error"
                    /\ UNCHANGED <<quotes, quote_cols, quote_i>>
               ELSE /\ quotes' = Append(quotes, r.val)
                    /\ quote_i' = quote_i + 1
                    /\ IF ~r.val.none /\ IsJsonString(r.val.percent)
                       THEN /\ quote_pc' = "error"      \* format ".2f" of a str
                            /\ UNCHANGED quote_cols
                       ELSE /\ quote_cols' = Append(quote_cols, Column(symbols[quote_i], r.val))
                            /\ quote_pc' = quote_pc
    /\ UNCHANGED <<symbols_input, symbols, snap_rows>>

\* the loop that fills snap_rows
SnapTable ==
    /\ quote_pc = "quotes"
    /\ quote_i > Len(symbols)
    /\ snap_rows' = SnapRows(quotes)
    /\ quote_pc' = "done"
    /\ UNCHANGED <<symbols_input, symbols, quote_i, quotes, quote_cols, quote_resps>>

QuoteIdle ==
    /\ symbols_input = "" /\ symbols = <<>> /\ quote_i = 1 /\ quotes = <<>>
    /\ quote_cols = <<>> /\ snap_rows = <<>> /\ quote_resps = <<>> /\ quote_pc = "idle"

TagIdle == text = None /\ tags = <<>> /\ tag_pc = "idle"

\* the refresh of the news touches nothing of the other operations but reads
\* the machine's zone and clock
Others == <<tagVars, rssVars, iahVars, quoteVars>>

InitTag == TagInit /\ IahIdle /\ RssIdle /\ NewsIdle /\ QuoteIdle
NextTag == TagArticle /\ UNCHANGED <<iahVars, rssVars, newsVars, quoteVars>>
\* calls of tag_article
SpecTag == InitTag /\ [][NextTag]_vars

InitTime == TimeInit /\ TagIdle /\ RssIdle /\ NewsIdle /\ QuoteIdle
NextTime == IsAfterHours /\ UNCHANGED <<tagVars, rssVars, newsVars, quoteVars>>
\* calls of is_after_hours
SpecTime == InitTime /\ [][NextTime]_vars

InitRss == RssInit /\ TagIdle /\ IahIdle /\ NewsIdle /\ QuoteIdle
NextRss == ParseRss /\ UNCHANGED <<tagVars, iahVars, newsVars, quoteVars>>
\* calls of parse_rss
SpecRss == InitRss /\ [][NextRss]_vars

InitQuote == QuoteInit /\ TagIdle /\ IahIdle /\ RssIdle /\ NewsIdle
NextQuote ==
    \/ FetchQuote /\ UNCHANGED <<tagVars, iahVars, rssVars, newsVars>>
    \/ SnapTable /\ UNCHANGED <<tagVars, iahVars, rssVars, newsVars>>
\* the quotes row and the snapshot table of one refresh
SpecQuote == InitQuote /\ [][NextQuote]_vars

Init ==
    /\ NewsInit /\ RefreshEnv
    /\ pub_dt_str = None /\ iah_pc = "idle" /\ iah_ret = FALSE
    /\ TagIdle /\ RssIdle /\ QuoteIdle

Next ==
    \/ FetchFeed /\ UNCHANGED Others
    \/ FetchBse /\ UNCHANGED Others
    \/ Sort /\ UNCHANGED Others
    \/ Filter /\ UNCHANGED Others
    \/ Dedup /\ UNCHANGED Others

\* the news of one refresh, from the first feed to the deduplicated list
Spec == Init /\ [][Next]_vars

InitMerge ==
    /\ MergeInit /\ RefreshEnv
    /\ pub_dt_str = None /\ iah_pc = "idle" /\ iah_ret = FALSE
    /\ TagIdle /\ RssIdle /\ QuoteIdle

NextMerge ==
    \/ Sort /\ UNCHANGED Others
    \/ Filter /\ UNCHANGED Others
    \/ Dedup /\ UNCHANGED Others

\* the stages after the merge, from any merged list
SpecMerge == InitMerge /\ [][NextMerge]_vars

\* C2: tag_article returns a non-empty list of tags drawn from the four
\* categories; the list is exactly <<"General">> if and only if no keyword of
\* the three lists is a substring of the lower-cased text, and "General"
\* never stands next to another tag.
NoKeywordIn(t) ==
    LET txt == IF t = None THEN "" ELSE lower(t)
    IN  \A kw \in {GEO_KEYWORDS, MACRO_KEYWORDS, ACTION_KEYWORDS} :
            \A i \in 1..Len(kw) : ~Contains(txt, kw[i])

TaggerContract ==
    tag_pc = "returned" =>
        /\ Len(tags) >= 1
        /\ \A i \in 1..Len(tags) :
               tags[i] \in {"Geopolitical", "Macro", "Corporate Action", "General"}
        /\ (tags = <<"General">>) <=> NoKeywordIn(text)
        /\ (\E i \in 1..Len(tags) : tags[i] = "General") => Len(tags) = 1

TaggerWitness ==
    /\ tag_pc = "returned"
    /\ text = "wa" \o "r" \o "RBI"
    /\ tags = <<"Geopolitical", "Macro">>

(***************************************************************************)
(* Properties of is_after_hours                                            *)
(***************************************************************************)

\* the datetime the four known formats give for the argument
Known == KnownFormat(pub_dt_str, tzname)

\* minute of the day, in UTC, of a parsed datetime
UtcMinute(dt) == ((dt.sec - (IF dt.aware THEN dt.off ELSE 0)) % DaySeconds) \div 60

\* the clock rule: UTC minute of the day + 5:30, wrapped, at or after 15:30
ClockRule(utcMinute) == (utcMinute + 330) % 1440 >= 930

\* seconds from the midnight that starts the parsed date to the UTC instant
\* (an offset is less than a day, so only the first day and the last two
\* days of the datetime range can leave it)
UtcShift(dt) == dt.sec - (IF dt.aware THEN dt.off ELSE 0)

\* the UTC instant and the instant + 5:30 both lie in years 1..9999
Representable(dt) ==
    /\ dt.ord = MinOrdinal => UtcShift(dt) >= 0
    /\ dt.ord = MaxOrdinal => UtcShift(dt) + 330 * 60 < DaySeconds
    /\ dt.ord = MaxOrdinal - 1 => UtcShift(dt) + 330 * 60 < 2 * DaySeconds

\* C3 as stated: whenever one of the four formats parses the string, the
\* result is true exactly when the UTC time of day plus 5:30 is at or after
\* 15:30, whatever the date.
ClockRuleForEveryParsedString ==
    (iah_pc = "returned" /\ Known.found) =>
        (iah_ret <=> ClockRule(UtcMinute(Known.dt)))

\* C3 amended: the clock rule decides the result for every parsed string
\* whose UTC instant and IST-shifted instant lie within years 1..9999; when
\* one of them does not, the result is false.  16:00 GMT gives true and
\* 08:00 GMT gives false.
ClockRuleForRepresentableInstants ==
    iah_pc = "returned" =>
        /\ (Known.found /\ Representable(Known.dt)) =>
               (iah_ret <=> ClockRule(UtcMinute(Known.dt)))
        /\ (Known.found /\ ~Representable(Known.dt)) => ~iah_ret
        /\ pub_dt_str = "Mon, 02 Jan 2024 16:00:00 GMT" => (Known.found /\ iah_ret)
        /\ pub_dt_str = "Mon, 02 Jan 2024 08:00:00 GMT" => (Known.found /\ ~iah_ret)

\* 15:30 IST sharp with a numeric offset: classified after-hours
ClockRuleWitness ==
    /\ iah_pc = "returned"
    /\ pub_dt_str = "Mon, 02 Jan 2024 15:30:59 +0530"
    /\ Known.found /\ Known.dt.aware
    /\ iah_ret

\* C4: no call of is_after_hours raises: every call returns a boolean, and
\* it returns false when the argument matches none of the four formats and
\* holds no HH:MM:SS substring.
NeverRaises ==
    /\ iah_pc \in {"idle", "call", "returned"}
    /\ iah_ret \in BOOLEAN
    /\ (iah_pc = "returned" /\ ~Known.found
          /\ (pub_dt_str = None \/ ~\E i \in 1..Len(pub_dt_str) : HmsAt(pub_dt_str, i)))
        => ~iah_ret

\* an embedded 99:99:99: the ValueError of the fallback is swallowed
NeverRaisesWitness ==
    /\ iah_pc = "returned"
    /\ pub_dt_str = "at 99:99:99"
    /\ Body(pub_dt_str, tzname, utcnow).raised
    /\ ~iah_ret

\* the digits of the leftmost HH:MM:SS of s as hour, minute, second
Embedded(s) ==
    LET i == CHOOSE k \in 1..Len(s) : HmsAt(s, k) /\ \A j \in 1..(k - 1) : ~HmsAt(s, j)
    IN  [h |-> Num2(s, i), m |-> Num2(s, i + 3), sec |-> Num2(s, i + 6)]

HasEmbedded(s) == s # None /\ \E i \in 1..Len(s) : HmsAt(s, i)

ItemPositions == {p \in 1..Len(rss_resp.doc) : rss_resp.doc[p].tag = "item"}

\* the position of the k-th item element
KthItem(k) ==
    CHOOSE p \in ItemPositions : Cardinality({q \in ItemPositions : q <= p}) = k

\* C6: a 200 response with a well-formed document of N item elements gives
\* min(N, max_items) records, the k-th record made from the k-th item
\* element, every field of every record a string, whatever children are missing.
RssCountAndFields ==
    (rss_pc # "call" /\ rss_resp.kind = "response" /\ rss_resp.status = 200
       /\ rss_resp.wellformed) =>
        /\ rss_pc = "returned"
        /\ Len(rss_items) = Min(Cardinality(ItemPositions), max_items)
        /\ \A k \in 1..Len(rss_items) :
               /\ DOMAIN rss_items[k] = {"title", "link", "published", "summary"}
               /\ \A f \in DOMAIN rss_items[k] : rss_items[k][f] # None
               /\ LET e == rss_resp.doc[KthItem(k)]
                  IN  rss_items[k].link = (IF e.link = None THEN "" ELSE strip(e.link))

\* three elements, the middle one no item, cap 2: both items, in order
RssWitness ==
    /\ rss_pc = "returned"
    /\ rss_resp = Response("response", 200, TRUE, <<BareItem, NoItem, FullItem>>)
    /\ max_items = 2
    /\ Len(rss_items) = 2
    /\ rss_items[1] = [title |-> "", link |-> "", published |-> "", summary |-> ""]
    /\ rss_items[2] = [title |-> "A & B", link |-> "http://x/1",
                       published |-> "Mon, 02 Jan 2024 16:00:00 GMT", summary |-> "x y &lt;"]

(***************************************************************************)
(* The refresh: properties                                                 *)
(***************************************************************************)

TitleOf(r) == Or(r.title, "")
Titles(news) == {TitleOf(news[k]) : k \in 1..Len(news)}
Records(news) == {news[k] : k \in 1..Len(news)}
NoTitleTwice(news) ==
    \A i, j \in 1..Len(news) : i < j => TitleOf(news[i]) # TitleOf(news[j])

RECURSIVE IsSubsequence(_, _)
\* a is b with some elements left out
IsSubsequence(a, b) ==
    IF a = <<>> THEN TRUE
    ELSE IF b = <<>> THEN FALSE
    ELSE IF Head(a) = Head(b) THEN IsSubsequence(Tail(a), Tail(b))
    ELSE IsSubsequence(a, Tail(b))

\* C1: after the dedup loop no two records of NEWS have the same title (a
\* missing title counting as ""), and NEWS is a subsequence of the sorted
\* list: same relative order, nothing added.
DedupNoDuplicateTitles ==
    pc = "done" => /\ NoTitleTwice(NEWS)
                   /\ IsSubsequence(NEWS, sorted_news)

\* the dedup loop dropped a later record whose title was seen two records before
DedupWitness ==
    /\ pc = "done" /\ ~after_hours
    /\ Len(sorted_news) = 3 /\ Len(NEWS) = 2
    /\ TitleOf(sorted_news[1]) = TitleOf(sorted_news[3])
    /\ TitleOf(sorted_news[1]) # TitleOf(sorted_news[2])

WithKey(news, v) ==
    LET Has(r) == pub_key(r) = v
    IN  SelectSeq(news, Has)

\* the list the merge builds: the items of each feed in selection order, then
\* the BSE announcements
MergeOrder ==
    LET RECURSIVE Feeds(_)
        Feeds(k) == IF k = 0 THEN <<>>
                    ELSE Feeds(k - 1)
                         \o WithSource(parse_rss(fetched[k].resp, articles_per).val,
                                       fetched[k].name)
    IN  Feeds(Len(fetched)) \o BseNews(bse_anns)

\* C9: after the sort the list is in descending order of the published
\* string (None counting as ""), so records without one come last, and the
\* records of each published string are in their merge order (feeds in
\* selection order, then BSE announcements).
SortDescendingStable ==
    pc \in {"filter", "dedup", "done"} =>
        /\ merged = MergeOrder
        /\ Len(sorted_news) = Len(merged)
        /\ \A k \in 1..(Len(sorted_news) - 1) :
               ~StrLess(pub_key(sorted_news[k]), pub_key(sorted_news[k + 1]))
        /\ \A i, j \in 1..Len(sorted_news) :
               (pub_key(sorted_news[i]) = "" /\ pub_key(sorted_news[j]) # "") => j < i
        /\ \A v \in {pub_key(merged[k]) : k \in 1..Len(merged)} :
               WithKey(sorted_news, v) = WithKey(merged, v)

\* the sort moved a record forward and kept two different records with the
\* same published string, one of a feed and one of BSE, in merge order
SortWitness ==
    /\ pc = "filter"
    /\ \E i, j \in 1..Len(merged) :
           /\ i < j /\ StrLess(pub_key(merged[i]), pub_key(merged[j]))
    /\ \E i, j \in 1..Len(merged) :
           /\ i < j /\ pub_key(merged[i]) = pub_key(merged[j])
           /\ merged[i].source # "BSE Announcements"
           /\ merged[j].source = "BSE Announcements"
    /\ \E k \in 1..Len(merged) : merged[k].published = None

IsAfterHoursRecord(r) == is_after_hours(r.published, tzname, utcnow).ret

\* the stages in the order filter, sort, dedup
FilterSortDedup(news, on) ==
    DedupLoop(SortedByPublished(IF on THEN OnlyAfterHours(news, tzname, utcnow).val ELSE news),
              {}, <<>>)

\* C10: sort, filter, dedup gives the list that filter, sort, dedup gives.
\* With the toggle on the final list has exactly one record for each title
\* that has a record classified after-hours, and no record classified
\* not-after-hours; with the toggle off exactly one record for each title of
\* the merged list.
StageOrderEquivalent ==
    pc = "done" =>
        /\ NEWS = FilterSortDedup(merged, after_hours)
        /\ NoTitleTwice(NEWS)
        /\ after_hours =>
               /\ Titles(NEWS) = {TitleOf(r) : r \in {x \in Records(merged) : IsAfterHoursRecord(x)}}
               /\ \A r \in Records(NEWS) : IsAfterHoursRecord(r)
        /\ ~after_hours => Titles(NEWS) = Titles(merged)

\* toggle on, an unsorted merged list, and a title whose first record in
\* sorted order is not after-hours while a later one is
StageOrderWitness ==
    /\ pc = "done" /\ after_hours
    /\ merged # sorted_news
    /\ \E i, j \in 1..Len(sorted_news) :
           /\ i < j /\ TitleOf(sorted_news[i]) = TitleOf(sorted_news[j])
           /\ ~IsAfterHoursRecord(sorted_news[i])
           /\ IsAfterHoursRecord(sorted_news[j])
           /\ sorted_news[j] \in Records(NEWS)

Succeeded(resp) == resp.kind = "response" /\ resp.status = 200 /\ resp.wellformed

\* the records of the feeds that succeeded, with their source
SucceededFeedRecords ==
    UNION {Records(WithSource(parse_rss(fetched[k].resp, articles_per).val, fetched[k].name)) :
               k \in {i \in 1..Len(fetched) : Succeeded(fetched[i].resp)}}

\* no error, every selected feed fetched, nothing from a feed that failed
FailedFeedsContributeNothing ==
    /\ pc # "error"
    /\ pc = "done" =>
           /\ Len(fetched) = Len(feeds_checked)
           /\ \A k \in 1..Len(fetched) :
                  /\ fetched[k].name = feeds_checked[k]
                  /\ ~Succeeded(fetched[k].resp) =>
                         \A r \in Records(merged) : r.source # fetched[k].name

ExactlyByTitle(news, S) ==
    /\ NoTitleTwice(news)
    /\ Records(news) \subseteq S
    /\ Titles(news) = {TitleOf(r) : r \in S}

\* C7 as stated: no error, failing feeds contribute nothing, and the output
\* is exactly the items of the feeds that succeeded, deduplicated by title.
OutputIsSucceededFeedItems ==
    /\ FailedFeedsContributeNothing
    /\ pc = "done" => ExactlyByTitle(NEWS, SucceededFeedRecords)

\* C7 (amended): no error, failing feeds contribute nothing, and the output
\* is exactly the items of the feeds that succeeded together with the BSE
\* announcements of the refresh, only those classified after-hours when the
\* toggle is on, deduplicated by title.
OutputIsFeedItemsAndAnnouncements ==
    /\ FailedFeedsContributeNothing
    /\ pc = "done" =>
           ExactlyByTitle(NEWS,
               {r \in SucceededFeedRecords \cup Records(BseNews(bse_anns)) :
                    after_hours => IsAfterHoursRecord(r)})

\* two feeds, the first returning 5 items and the second timing out, no
\* announcement, toggle off: exactly those 5 items
PartialFetchWitness ==
    /\ pc = "done" /\ ~after_hours /\ bse_anns = <<>>
    /\ Len(fetched) = 2
    /\ Succeeded(fetched[1].resp) /\ Len(fetched[1].resp.doc) = 5
    /\ fetched[2].resp.kind = "timeout"
    /\ Len(NEWS) = 5
    /\ \A k \in 1..5 : NEWS[k].source = fetched[1].name

(***************************************************************************)
(* The quotes row: properties                                              *)
(***************************************************************************)

TransportError(resp) == resp.kind # "response" \/ resp.status # 200

\* C8: a quote request that ends in a transport error, a status other than
\* 200 included, gives None whatever the body holds, nothing is raised, the
\* symbol is shown as data n/a and gets no row in the snapshot table.
TransportErrorGivesNoQuote ==
    /\ \A k \in 1..Len(quote_resps) :
           TransportError(quote_resps[k]) =>
               /\ k <= Len(quotes) /\ quotes[k] = NoQuote
               /\ k <= Len(quote_cols) => quote_cols[k].kind = "write"
               /\ k <= Len(quote_cols) \/ quote_pc = "error"
    /\ quote_pc = "done" =>
           Len(snap_rows) <= Cardinality({k \in 1..Len(quote_resps) :
                                              ~TransportError(quote_resps[k])})

====
